---- MODULE Spec2Model ----
(***************************************************************************)
(* A model of tunic.py: the glyph canonicalizer (clean_glyph), the glyph   *)
(* index built while parsing (CleanAndAnnotate.word, load_file, _main),    *)
(* the threshold query (points_of_interest) and the subglyph decomposition *)
(* search of process_text.                                                 *)
(*                                                                         *)
(* A Python str is a sequence of one-character strings; a frozenset is a   *)
(* set; a dict is a function, or a sequence of <<key, value>> entries when *)
(* the order of its keys is read.                                          *)
(***************************************************************************)
EXTENDS Integers, Sequences, FiniteSets, TLC

VARIABLES
    \* canonicalizer
    raw, resolved, reresolved, cpc,
    \* points_of_interest
    search_space, n, interesting, qpc,
    \* _main / load_file / CleanAndAnnotate
    notes, fidx, SCANNED_TREES, FOUND_GLYPHS, mpc,
    \* process_text, one glyph
    SOUND_TRANSLATIONS, SUBGLYPH_SOUNDS, glyph, possible_components,
    permutation, position, _g, sounds, options, by_sound, visited, ppc

vars == <<raw, resolved, reresolved, cpc,
          search_space, n, interesting, qpc,
          notes, fidx, SCANNED_TREES, FOUND_GLYPHS, mpc,
          SOUND_TRANSLATIONS, SUBGLYPH_SOUNDS, glyph, possible_components,
          permutation, position, _g, sounds, options, by_sound, visited, ppc>>

cleanVars == <<raw, resolved, reresolved, cpc>>
queryVars == <<search_space, n, interesting, qpc>>
mainVars == <<notes, fidx, SCANNED_TREES, FOUND_GLYPHS, mpc>>
textVars == <<SOUND_TRANSLATIONS, SUBGLYPH_SOUNDS, glyph, possible_components,
              permutation, position, _g, sounds, options, by_sound, visited, ppc>>

----------------------------------------------------------------------------
(* Strings and generic helpers *)

\* The characters of a str, as frozenset(s) or set(s) gives them.
CharSet(s) == {s[i] : i \in 1..Len(s)}

\* Every sequence over S of length lo..hi.
SeqsOf(S, lo, hi) == UNION {[1..k -> S] : k \in lo..hi}

\* Every ordering of the finite set S, as a duplicate-free sequence.
Orderings(S) == {s \in [1..Cardinality(S) -> S] : CharSet(s) = S}

\* str.replace(ch, "") for a one-character ch.
Remove(s, ch) == SelectSeq(s, LAMBDA c : c # ch)

\* sep.join(parts) for a one-character sep and a list of strs.
RECURSIVE Join(_, _)
Join(sep, parts) ==
    IF parts = <<>> THEN <<>>
    ELSE IF Len(parts) = 1 THEN parts[1]
    ELSE parts[1] \o <<sep>> \o Join(sep, Tail(parts))

----------------------------------------------------------------------------
(* clean_glyph *)

\* The 16-symbol rank table of glyph_ordering.
RankTable == <<"1", "2", "3", "4", "Q", "W", "E", "R",
               "A", "S", "D", "F", "Z", "X", "C", "V">>

Alphabet == CharSet(RankTable)

\* The characters the glyph terminal of the grammar accepts.
GlyphChars == Alphabet \cup {"-"}

\* str.find: the 0-based index of the first occurrence, -1 when absent.
Find(table, char) ==
    IF \E i \in 1..Len(table) : table[i] = char
    THEN (CHOOSE i \in 1..Len(table) :
              table[i] = char /\ \A j \in 1..(i - 1) : table[j] # char) - 1
    ELSE -1

glyph_ordering(char) == Find(RankTable, char)

\* sorted(iterable, key=glyph_ordering): a stable sort. x goes after every
\* element already placed whose key is not greater.
RECURSIVE InsertByKey(_, _)
InsertByKey(x, s) ==
    IF s = <<>> THEN <<x>>
    ELSE IF glyph_ordering(x) < glyph_ordering(s[1]) THEN <<x>> \o s
    ELSE <<s[1]>> \o InsertByKey(x, Tail(s))

RECURSIVE Sorted(_)
Sorted(s) ==
    IF s = <<>> THEN <<>>
    ELSE InsertByKey(s[Len(s)], Sorted(SubSeq(s, 1, Len(s) - 1)))

\* A variant that forgets .replace("C", "").
StrippedKeepC(s) == CharSet(Remove(Remove(s, "E"), "-"))

\* str.replace(ch, "", 1): only the first occurrence goes.
RemoveFirst(s, ch) ==
    IF ch \in CharSet(s)
    THEN LET i == CHOOSE i \in 1..Len(s) :
                      s[i] = ch /\ \A j \in 1..(i - 1) : s[j] # ch
         IN SubSeq(s, 1, i - 1) \o SubSeq(s, i + 1, Len(s))
    ELSE s

\* A variant that replaces with count 1.
StrippedFirst(s) ==
    CharSet(RemoveFirst(RemoveFirst(RemoveFirst(s, "E"), "C"), "-"))

\* The characters clean_glyph keeps: set(glyph.replace("E", "")
\* .replace("C", "").replace("-", "")).
Stripped(s) == CharSet(Remove(Remove(Remove(s, "E"), "C"), "-"))

\* clean_glyph(glyph): the sort of the kept characters, with `order` the
\* order in which set(...) yields them, an element of
\* Orderings(Stripped(glyph)) (a Python set has no specified iteration
\* order).
clean_glyph(s, order) == Sorted(order)

\* Every value clean_glyph(s) can return.
CleanResults(s) == {clean_glyph(s, o) : o \in Orderings(Stripped(s))}

----------------------------------------------------------------------------
(* Specification of the canonicalizer: clean_glyph applied to a raw glyph  *)
(* and then to its own result.                                             *)

MaxLen == 3

IdleClean == raw = <<>> /\ resolved = <<>> /\ reresolved = <<>> /\ cpc = "idle"
IdleQuery == search_space = <<>> /\ n = 1 /\ interesting = <<>> /\ qpc = "idle"
IdleMain ==
    /\ notes = <<>> /\ fidx = 1 /\ SCANNED_TREES = <<>>
    /\ FOUND_GLYPHS = <<>> /\ mpc = "idle"
IdleText ==
    /\ SOUND_TRANSLATIONS = <<>> /\ SUBGLYPH_SOUNDS = <<>> /\ glyph = <<>>
    /\ possible_components = <<>> /\ permutation = <<>> /\ position = 0
    /\ _g = {} /\ sounds = <<>> /\ options = {} /\ by_sound = <<>>
    /\ visited = <<>> /\ ppc = "idle"

InitClean ==
    /\ raw \in SeqsOf(GlyphChars, 0, MaxLen)
    /\ resolved = <<>> /\ reresolved = <<>> /\ cpc = "raw"
    /\ IdleQuery /\ IdleMain /\ IdleText

\* resolved = clean_glyph(raw)
Clean ==
    /\ cpc = "raw"
    /\ \E order \in Orderings(Stripped(raw)) :
           resolved' = clean_glyph(raw, order)
    /\ cpc' = "cleaned"
    /\ UNCHANGED <<raw, reresolved, queryVars, mainVars, textVars>>

\* reresolved = clean_glyph(resolved)
CleanAgain ==
    /\ cpc = "cleaned"
    /\ \E order \in Orderings(Stripped(resolved)) :
           reresolved' = clean_glyph(resolved, order)
    /\ cpc' = "recleaned"
    /\ UNCHANGED <<raw, resolved, queryVars, mainVars, textVars>>

NextClean == Clean \/ CleanAgain

SpecClean == InitClean /\ [][NextClean]_vars

\* C1: for a non-empty raw glyph over the alphabet and '-', clean_glyph
\* returns exactly the characters of the input other than E, C and '-', each
\* once, in strictly increasing rank of the table 1234QWERASDFZXCV (so inputs
\* with the same kept characters give the same output).
C1_CleanSortedUnique ==
    (cpc \in {"cleaned", "recleaned"} /\ raw # <<>>) =>
        /\ CharSet(resolved) = CharSet(raw) \ {"E", "C", "-"}
        /\ \A i, j \in 1..Len(resolved) :
               i < j => \E p, q \in 1..Len(RankTable) :
                           /\ RankTable[p] = resolved[i]
                           /\ RankTable[q] = resolved[j]
                           /\ p < q

C1_Witness ==
    /\ cpc = "cleaned"
    /\ raw = <<"A", "C", "1">>
    /\ resolved = <<"1", "A">>

\* C2: clean_glyph is idempotent: cleaning a cleaned glyph changes nothing.
C2_CleanIdempotent == cpc = "recleaned" => reresolved = resolved

C2_Witness ==
    /\ cpc = "recleaned"
    /\ raw = <<"E", "Q", "E">>
    /\ resolved = <<"Q">>
    /\ reresolved = <<"Q">>

----------------------------------------------------------------------------
(* points_of_interest *)

IndexKeys == {"12", "34", "QW"}
MaxLocations == 3
MaxThreshold == 4

Locations == 1..MaxLocations

\* Every dict from some of the keys K to a set of locations.
Indexes(K) == UNION {[D -> SUBSET Locations] : D \in SUBSET K}

\* A variant after the docstring: "appear more than n times".
points_of_interest_more(space, k) ==
    LET keep == {key \in DOMAIN space : Cardinality(space[key]) > k}
    IN [key \in keep |-> space[key]]

\* {k: v for (k, v) in search_space.items() if len(v) >= n}
points_of_interest(space, k) ==
    LET keep == {key \in DOMAIN space : Cardinality(space[key]) >= k}
    IN [key \in keep |-> space[key]]

InitQuery ==
    /\ search_space \in Indexes(IndexKeys)
    /\ n \in 1..MaxThreshold
    /\ interesting = <<>> /\ qpc = "call"
    /\ IdleClean /\ IdleMain /\ IdleText

Query ==
    /\ qpc = "call"
    /\ interesting' = points_of_interest(search_space, n)
    /\ qpc' = "returned"
    /\ UNCHANGED <<search_space, n, cleanVars, mainVars, textVars>>

NextQuery == Query

SpecQuery == InitQuery /\ [][NextQuery]_vars

----------------------------------------------------------------------------
(* _main, load_file and the CleanAndAnnotate callbacks.                    *)
(*                                                                         *)
(* A notes file is [words, ok]: ok says whether lrk.parse accepts it, and  *)
(* words are the words whose `word` callback runs while it is parsed (the  *)
(* LALR parser calls the transformer at each reduction, so for a malformed *)
(* file these are the words reduced before the error is raised). A word is *)
(* the list of its raw glyph tokens.                                       *)

MaxFiles == 2

RawGlyphs == {<<"2", "1">>, <<"1", "-", "2">>, <<"3">>, <<"E">>}
RawWords == SeqsOf(RawGlyphs, 1, 2)
NoteFiles == [words : SeqsOf(RawWords, 0, 1), ok : BOOLEAN]

\* A variant that assigns a fresh set instead of adding to the stored one.
SetAddOverwrite(d, key, value) ==
    [k \in DOMAIN d \cup {key} |-> IF k = key THEN {value} ELSE d[k]]

\* FOUND_GLYPHS[key].add(value) on a defaultdict(set).
SetAdd(d, key, value) ==
    IF key \in DOMAIN d THEN [d EXCEPT ![key] = @ \cup {value}]
    ELSE [k \in DOMAIN d \cup {key} |-> IF k = key THEN {value} ELSE d[k]]

\* CleanAndAnnotate.glyph on every glyph token of a word: each possible list
\* of resolved children.
ResolvedChildren(w) ==
    {c \in [1..Len(w) -> UNION {CleanResults(w[i]) : i \in 1..Len(w)}] :
        \A i \in 1..Len(w) : c[i] \in CleanResults(w[i])}

\* "/".join(tree.children)
WordString(children) == Join("/", children)

\* for glyph in tree.children: FOUND_GLYPHS[glyph].add(this_word)
RECURSIVE RecordGlyphs(_, _, _)
RecordGlyphs(d, children, this_word) ==
    IF children = <<>> THEN d
    ELSE RecordGlyphs(SetAdd(d, children[1], this_word), Tail(children),
                      this_word)

\* CleanAndAnnotate.word
word(d, children) == RecordGlyphs(d, children, WordString(children))

\* The word callback on each word of a file, in order; ws holds the resolved
\* children of each.
RECURSIVE IndexWords(_, _)
IndexWords(d, ws) ==
    IF ws = <<>> THEN d ELSE IndexWords(word(d, ws[1]), Tail(ws))

\* Each possible list of resolved words of a file.
ResolvedWords(ws) ==
    {r \in [1..Len(ws) -> UNION {ResolvedChildren(ws[i]) : i \in 1..Len(ws)}] :
        \A i \in 1..Len(ws) : r[i] \in ResolvedChildren(ws[i])}

\* The value lrk.parse returns: the text of the file, word by word.
TreeOf(rs) == [i \in 1..Len(rs) |-> WordString(rs[i])]

InitMain ==
    /\ notes \in SeqsOf(NoteFiles, 0, MaxFiles)
    /\ fidx = 1
    /\ SCANNED_TREES = <<>>
    /\ FOUND_GLYPHS = <<>>
    /\ mpc = "loop"
    /\ IdleClean /\ IdleQuery /\ IdleText

\* load_file on a file that parses: the callbacks run, the tree is appended.
LoadFile ==
    /\ mpc = "loop"
    /\ fidx <= Len(notes)
    /\ notes[fidx].ok
    /\ \E rs \in ResolvedWords(notes[fidx].words) :
           /\ FOUND_GLYPHS' = IndexWords(FOUND_GLYPHS, rs)
           /\ SCANNED_TREES' = Append(SCANNED_TREES, TreeOf(rs))
    /\ fidx' = fidx + 1
    /\ UNCHANGED <<notes, mpc, cleanVars, queryVars, textVars>>

\* load_file on a malformed file: lrk.parse raises after the callbacks of the
\* words already reduced; nothing catches the exception in load_file or in
\* _main, so the for loop and the program end with it.
LoadFileRaises ==
    /\ mpc = "loop"
    /\ fidx <= Len(notes)
    /\ ~notes[fidx].ok
    /\ \E rs \in ResolvedWords(notes[fidx].words) :
           FOUND_GLYPHS' = IndexWords(FOUND_GLYPHS, rs)
    /\ mpc' = "raised"
    /\ UNCHANGED <<notes, fidx, SCANNED_TREES, cleanVars, queryVars, textVars>>

\* The for loop of _main is exhausted: _main returns.
MainReturns ==
    /\ mpc = "loop"
    /\ fidx > Len(notes)
    /\ mpc' = "returned"
    /\ UNCHANGED <<notes, fidx, SCANNED_TREES, FOUND_GLYPHS,
                   cleanVars, queryVars, textVars>>

NextMain == LoadFile \/ LoadFileRaises \/ MainReturns

SpecMain == InitMain /\ [][NextMain]_vars

\* The files whose callbacks have run so far: those before fidx, and the
\* malformed one at fidx once it has raised.
Processed == 1..(IF mpc = "raised" THEN fidx ELSE fidx - 1)

\* The words processed so far, each as <<file, index in the file>>.
ProcessedWords ==
    UNION {{<<f, i>> : i \in 1..Len(notes[f].words)} : f \in Processed}

\* The canonical strings of the words processed so far that have glyph key
\* g among their glyphs.
WordsContaining(g) ==
    {WordString(c) :
        c \in {c \in UNION {ResolvedChildren(notes[p[1]].words[p[2]]) :
                              p \in ProcessedWords} :
                  \E i \in 1..Len(c) : c[i] = g}}

\* Every glyph key a raw glyph of the corpus can resolve to.
GlyphKeys == UNION {CleanResults(r) : r \in RawGlyphs}

\* FOUND_GLYPHS[g] read without inserting: the empty set for an absent key.
Found(d, g) == IF g \in DOMAIN d THEN d[g] ELSE {}

\* C6: with a malformed file in the corpus, no tree is recorded for it and
\* the run goes on to the next file, so that when the run has ended
\* SCANNED_TREES holds one tree for every well-formed file of the corpus.
C6_FileIsolation ==
    mpc \in {"raised", "returned"} =>
        Len(SCANNED_TREES) =
            Cardinality({f \in 1..Len(notes) : notes[f].ok})

\* C7: at every point of the run, FOUND_GLYPHS[g] is the set of canonical
\* strings of the words processed so far that contain g as a glyph, and a
\* step never removes a key or an element of a value set.
C7_GlyphIndex ==
    /\ [](/\ DOMAIN FOUND_GLYPHS \subseteq GlyphKeys
          /\ \A g \in GlyphKeys : Found(FOUND_GLYPHS, g) = WordsContaining(g))
    /\ [][\A g \in DOMAIN FOUND_GLYPHS :
             /\ g \in DOMAIN FOUND_GLYPHS'
             /\ FOUND_GLYPHS[g] \subseteq FOUND_GLYPHS'[g]]_vars

C7_Witness ==
    /\ mpc = "raised"
    /\ fidx = 2
    /\ notes[1].ok
    /\ notes[1].words = <<<< <<"2", "1">>, <<"3">> >>>>
    /\ notes[2].words = <<<< <<"1", "-", "2">> >>>>
    /\ FOUND_GLYPHS[<<"1", "2">>] = {<<"1", "2", "/", "3">>, <<"1", "2">>}

----------------------------------------------------------------------------
(* process_text: the body of its loop for one glyph (lines 259-293). Each  *)
(* glyph of a text starts from a fresh by_sound, so one glyph is the whole *)
(* of the search.                                                          *)
(*                                                                         *)
(* SOUND_TRANSLATIONS (str -> label) and SUBGLYPH_SOUNDS (frozenset ->     *)
(* label) are the sound table; tunic.py reads them and never assigns them, *)
(* so their contents are inputs here.                                      *)

MaxKeys == 3
MaxGlyphLen == 3

DecompChars == {"1", "2", "3", "E"}

\* The subglyphs a sound table may know, each with its label.
KnownSubglyphs ==
    {{}, {"1"}, {"3"}, {"1", "2"}, {"2", "3"}, {"2", "E"}}

SoundOf(key) ==
    CASE key = {} -> <<"o">>
      [] key = {"1"} -> <<"a">>
      [] key = {"3"} -> <<"a">>
      [] key = {"1", "2"} -> <<"a", "b">>
      [] key = {"2", "3"} -> <<"k">>
      [] OTHER -> <<"t">>

\* A dict frozenset -> label in insertion order: entries with distinct keys.
SubglyphTables ==
    {t \in SeqsOf({<<k, SoundOf(k)>> : k \in KnownSubglyphs}, 0, MaxKeys) :
        \A i, j \in 1..Len(t) : i # j => t[i][1] # t[j][1]}

\* A dict str -> label: the whole glyphs with a known sound.
GlyphTables == {[s \in {<<"1", "2">>} |-> <<"a", "b">>]}

\* The glyphs looked up: the rank-sorted spellings (a linking character
\* included or not) and some that a typed text can hold besides.
GlyphInputs ==
    {s \in SeqsOf(DecompChars, 1, MaxGlyphLen) :
        \A i \in 1..(Len(s) - 1) : glyph_ordering(s[i]) < glyph_ordering(s[i + 1])}
    \cup {<<"2", "1">>, <<"1", "1">>, <<"3", "2", "1">>}

\* The keys of a dict, in iteration order.
Keys(table) == [i \in 1..Len(table) |-> table[i][1]]

\* table[key]
Lookup(table, key) ==
    table[CHOOSE i \in 1..Len(table) : table[i][1] = key][2]

\* A variant that compares with <= instead of <.
SubsetOrEqual(a, b) == a \subseteq b

\* frozenset.__lt__: a proper subset.
ProperSubset(a, b) == a \subseteq b /\ a # b

\* [rep for rep in SUBGLYPH_SOUNDS if rep < glyph_parts]
PossibleComponents(table, glyph_parts) ==
    SelectSeq(Keys(table), LAMBDA rep : ProperSubset(rep, glyph_parts))

RECURSIVE Factorial(_)
Factorial(k) == IF k <= 0 THEN 1 ELSE k * Factorial(k - 1)

\* A variant that yields the list as it is, whatever k.
NthPermutationStuck(list, k) == list

\* The k-th tuple itertools.permutations(list) yields. The tuples come in
\* lexicographic order of positions: the first (Len - 1)! start with
\* list[1], the next (Len - 1)! with list[2], and so on, each followed by the
\* permutations of the other elements in the same order.
RECURSIVE NthPermutation(_, _)
NthPermutation(list, k) ==
    IF list = <<>> THEN <<>>
    ELSE LET f == Factorial(Len(list) - 1)
             i == ((k - 1) \div f) + 1
             others == SubSeq(list, 1, i - 1) \o SubSeq(list, i + 1, Len(list))
         IN <<list[i]>> \o NthPermutation(others, ((k - 1) % f) + 1)

\* A variant that takes a subglyph as soon as it shares a segment.
FitsOverlap(subglyph, rem) == subglyph \cap rem # {}

\* subglyph <= _g
Fits(subglyph, rem) == subglyph \subseteq rem

InitText ==
    /\ SOUND_TRANSLATIONS \in GlyphTables
    /\ SUBGLYPH_SOUNDS \in SubglyphTables
    /\ glyph \in GlyphInputs
    /\ possible_components = <<>> /\ permutation = <<>> /\ position = 0
    /\ _g = {} /\ sounds = <<>> /\ options = {} /\ by_sound = <<>>
    /\ visited = <<>> /\ ppc = "glyph"
    /\ IdleClean /\ IdleQuery /\ IdleMain

\* if glyph in SOUND_TRANSLATIONS: by_sound.append(SOUND_TRANSLATIONS[glyph])
KnownSound ==
    /\ ppc = "glyph"
    /\ glyph \in DOMAIN SOUND_TRANSLATIONS
    /\ by_sound' = <<[kind |-> "sound", value |-> SOUND_TRANSLATIONS[glyph]]>>
    /\ ppc' = "done"
    /\ UNCHANGED <<SOUND_TRANSLATIONS, SUBGLYPH_SOUNDS, glyph,
                   possible_components, permutation, position, _g, sounds,
                   options, visited, cleanVars, queryVars, mainVars>>

\* else, with possible_components empty: by_sound.append(glyph)
NoComponents ==
    /\ ppc = "glyph"
    /\ glyph \notin DOMAIN SOUND_TRANSLATIONS
    /\ PossibleComponents(SUBGLYPH_SOUNDS, CharSet(glyph)) = <<>>
    /\ possible_components' = <<>>
    /\ by_sound' = <<[kind |-> "glyph", value |-> glyph]>>
    /\ ppc' = "done"
    /\ UNCHANGED <<SOUND_TRANSLATIONS, SUBGLYPH_SOUNDS, glyph, permutation,
                   position, _g, sounds, options, visited,
                   cleanVars, queryVars, mainVars>>

\* else, with possible_components not empty: options = set(), and the
\* permutations are about to be iterated.
StartSearch ==
    /\ ppc = "glyph"
    /\ glyph \notin DOMAIN SOUND_TRANSLATIONS
    /\ PossibleComponents(SUBGLYPH_SOUNDS, CharSet(glyph)) # <<>>
    /\ possible_components' = PossibleComponents(SUBGLYPH_SOUNDS, CharSet(glyph))
    /\ options' = {}
    /\ visited' = <<>>
    /\ ppc' = "permutations"
    /\ UNCHANGED <<SOUND_TRANSLATIONS, SUBGLYPH_SOUNDS, glyph, permutation,
                   position, _g, sounds, by_sound,
                   cleanVars, queryVars, mainVars>>

\* Whether the iterator of the permutations has a tuple left to yield.
MorePermutations ==
    /\ ppc = "permutations"
    /\ Len(visited) < Factorial(Len(possible_components))

\* for sequence in itertools.permutations(possible_components): the next
\* tuple; sounds = [], _g = glyph_parts.copy(). visited is what the iterator
\* has yielded so far.
NextSequence ==
    /\ MorePermutations
    /\ LET sequence == NthPermutation(possible_components, Len(visited) + 1)
       IN /\ permutation' = sequence
          /\ visited' = Append(visited, sequence)
    /\ position' = 1
    /\ _g' = CharSet(glyph)
    /\ sounds' = <<>>
    /\ ppc' = "subglyphs"
    /\ UNCHANGED <<SOUND_TRANSLATIONS, SUBGLYPH_SOUNDS, glyph,
                   possible_components, options, by_sound,
                   cleanVars, queryVars, mainVars>>

\* for subglyph in sequence: one iteration. A subglyph that fits is removed
\* and its sound appended; with nothing left the loop breaks.
TrySubglyph ==
    /\ ppc = "subglyphs"
    /\ position <= Len(permutation)
    /\ LET subglyph == permutation[position]
       IN IF Fits(subglyph, _g)
          THEN /\ _g' = _g \ subglyph
               /\ sounds' = Append(sounds, Lookup(SUBGLYPH_SOUNDS, subglyph))
               /\ IF _g' = {}
                  THEN ppc' = "add" /\ position' = position
                  ELSE ppc' = "subglyphs" /\ position' = position + 1
          ELSE /\ position' = position + 1
               /\ UNCHANGED <<_g, sounds, ppc>>
    /\ UNCHANGED <<SOUND_TRANSLATIONS, SUBGLYPH_SOUNDS, glyph,
                   possible_components, permutation, options, by_sound,
                   visited, cleanVars, queryVars, mainVars>>

\* The else of the for loop (no break):
\* sounds.append(clean_glyph("".join(_g)))
Leftover ==
    /\ ppc = "subglyphs"
    /\ position > Len(permutation)
    /\ \E joined \in Orderings(_g) :
           \E order \in Orderings(Stripped(joined)) :
               sounds' = Append(sounds, clean_glyph(joined, order))
    /\ ppc' = "add"
    /\ UNCHANGED <<SOUND_TRANSLATIONS, SUBGLYPH_SOUNDS, glyph,
                   possible_components, permutation, position, _g, options,
                   by_sound, visited, cleanVars, queryVars, mainVars>>

\* options.add("_".join(sounds))
AddOption ==
    /\ ppc = "add"
    /\ options' = options \cup {Join("_", sounds)}
    /\ ppc' = "permutations"
    /\ UNCHANGED <<SOUND_TRANSLATIONS, SUBGLYPH_SOUNDS, glyph,
                   possible_components, permutation, position, _g, sounds,
                   by_sound, visited, cleanVars, queryVars, mainVars>>

\* The permutations are exhausted: by_sound.append(options)
ReturnOptions ==
    /\ ppc = "permutations"
    /\ Len(visited) >= Factorial(Len(possible_components))
    /\ by_sound' = <<[kind |-> "options", value |-> options]>>
    /\ ppc' = "done"
    /\ UNCHANGED <<SOUND_TRANSLATIONS, SUBGLYPH_SOUNDS, glyph,
                   possible_components, permutation, position, _g, sounds,
                   options, visited, cleanVars, queryVars, mainVars>>

NextText ==
    \/ KnownSound \/ NoComponents \/ StartSearch \/ NextSequence
    \/ TrySubglyph \/ Leftover \/ AddOption \/ ReturnOptions

SpecText == InitText /\ [][NextText]_vars

\* Whether the search of the glyph is over and gave a set of readings.
Searched == ppc = "done" /\ by_sound[1].kind = "options"

\* The reading of labels la then lb with nothing after them.
Reading2(la, lb) == la \o <<"_">> \o lb

\* C3: a glyph that is no exact key, whose character set is the union of two
\* disjoint components A and B of the sound table, gets a reading set holding
\* label(A)_label(B) or label(B)_label(A), with no residual, whatever other
\* keys the table holds.
C3_TwoComponents ==
    (ppc = "done" /\ glyph \notin DOMAIN SOUND_TRANSLATIONS) =>
        \A i, j \in 1..Len(SUBGLYPH_SOUNDS) :
            LET A == SUBGLYPH_SOUNDS[i][1]
                B == SUBGLYPH_SOUNDS[j][1]
            IN (/\ A \cap B = {}
                /\ A \cup B = CharSet(glyph)
                /\ A # CharSet(glyph)
                /\ B # CharSet(glyph)) =>
                   /\ by_sound[1].kind = "options"
                   /\ \/ Reading2(SUBGLYPH_SOUNDS[i][2], SUBGLYPH_SOUNDS[j][2])
                             \in by_sound[1].value
                      \/ Reading2(SUBGLYPH_SOUNDS[j][2], SUBGLYPH_SOUNDS[i][2])
                             \in by_sound[1].value

C3_Witness ==
    /\ Searched
    /\ glyph = <<"1", "2", "3">>
    /\ Keys(SUBGLYPH_SOUNDS) = <<{"1", "2"}, {"2", "3"}, {"1"}>>
    /\ by_sound[1].value =
           {<<"a", "b", "_", "3">>, <<"k", "_", "a">>, <<"a", "_", "k">>}

\* C4: a glyph that is no exact key and of which no key of the sound table
\* is a proper subset comes back as itself, the sole reading.
C4_Passthrough ==
    (/\ ppc = "done"
     /\ glyph \notin DOMAIN SOUND_TRANSLATIONS
     /\ \A i \in 1..Len(SUBGLYPH_SOUNDS) :
            ~(/\ SUBGLYPH_SOUNDS[i][1] \subseteq CharSet(glyph)
              /\ SUBGLYPH_SOUNDS[i][1] # CharSet(glyph))) =>
        /\ Len(by_sound) = 1
        /\ by_sound[1].kind = "glyph"
        /\ by_sound[1].value = glyph

C4_Witness ==
    /\ ppc = "done"
    /\ glyph = <<"2", "1">>
    /\ Keys(SUBGLYPH_SOUNDS) = <<{"1", "2"}, {"3"}, {"2", "E"}>>
    /\ by_sound[1].kind = "glyph"
    /\ by_sound[1].value = <<"2", "1">>

\* Whether possible_components has been computed for the glyph.
ComponentsComputed ==
    \/ ppc \in {"permutations", "subglyphs", "add"}
    \/ ppc = "done" /\ by_sound[1].kind # "sound"

\* C9: the candidate components are exactly the keys of the sound table whose
\* character set is a strict and non-empty subset of the glyph's.
C9_StrictNonEmptyCandidates ==
    ComponentsComputed =>
        CharSet(possible_components) =
            {k \in CharSet(Keys(SUBGLYPH_SOUNDS)) :
                k # {} /\ k \subseteq CharSet(glyph) /\ k # CharSet(glyph)}

\* The labels of the components of the permutation at the indices `used`,
\* in the permutation's order.
LabelsOf(used) ==
    LET at == SelectSeq([i \in 1..Len(permutation) |-> i],
                        LAMBDA i : i \in used)
    IN [i \in 1..Len(at) |-> Lookup(SUBGLYPH_SOUNDS, permutation[at[i]])]

\* The reading of the current permutation is a maximal greedy decomposition:
\* some components of it, pairwise disjoint and inside the glyph, give the
\* labels; a residual follows exactly when characters are left; components
\* and residual cover the glyph exactly; no component fits in what is left.
MaximalDecomposition ==
    \E used \in SUBSET (1..Len(permutation)) :
        LET rest == CharSet(glyph) \ UNION {permutation[i] : i \in used}
        IN /\ \A i \in used : permutation[i] \subseteq CharSet(glyph)
           /\ \A i, j \in used :
                  i # j => permutation[i] \cap permutation[j] = {}
           /\ IF rest = {} THEN sounds = LabelsOf(used)
              ELSE /\ Len(sounds) = Cardinality(used) + 1
                   /\ SubSeq(sounds, 1, Len(sounds) - 1) = LabelsOf(used)
                   /\ sounds[Len(sounds)] \in Orderings(rest)
           /\ \A i \in 1..Len(permutation) : ~(permutation[i] \subseteq rest)

NonEmptyComponents ==
    \A i \in 1..Len(possible_components) : possible_components[i] # {}

\* C10 as claimed: for every glyph and every permutation of non-empty
\* candidate components, the reading is a maximal greedy decomposition.
C10_MaximalAnyGlyph ==
    (ppc = "add" /\ NonEmptyComponents) => MaximalDecomposition

\* C10 as amended: the same for every glyph that holds none of E, C and '-'
\* (every canonical glyph).
C10_MaximalCanonical ==
    (/\ ppc = "add"
     /\ NonEmptyComponents
     /\ CharSet(glyph) \cap {"E", "C", "-"} = {}) => MaximalDecomposition

C10_Witness ==
    /\ ppc = "add"
    /\ glyph = <<"1", "2", "3">>
    /\ permutation = <<{"2", "3"}, {"1", "2"}, {"3"}>>
    /\ sounds = <<<<"k">>, <<"1">>>>

\* A measure of the work left in the search: the permutations not yet
\* yielded, then the steps left in the current one.
WorkLeft ==
    LET k == Len(possible_components)
        block == (Factorial(k) - Len(visited)) * (k + 4)
    IN CASE ppc = "glyph" -> Factorial(MaxKeys) * (MaxKeys + 4) + 2
         [] ppc = "permutations" -> block + 1
         [] ppc = "subglyphs" -> block + 3 + (k + 1 - position)
         [] ppc = "add" -> block + 2
         [] OTHER -> 0

\* Whether a step of the search can be taken. NextSequence is only
\* assignments past its guard, so it can be taken whenever the guard holds.
CanStep ==
    \/ MorePermutations
    \/ ENABLED (KnownSound \/ NoComponents \/ StartSearch \/ TrySubglyph
                   \/ Leftover \/ AddOption \/ ReturnOptions)

\* C8: the search ends: a step is always possible until the result is there
\* and every step lessens the work left, which is never negative. When it has
\* ended, the iterator has yielded every permutation of the candidate
\* components once and the reading set returned is the one accumulated; the
\* inner loop passes once over the permutation, one component a step.
C8_SearchTerminates ==
    /\ [](ppc = "done" \/ CanStep)
    /\ [](WorkLeft >= 0)
    /\ [][WorkLeft' < WorkLeft]_vars
    /\ [](Searched =>
            /\ Len(visited) = Factorial(Len(possible_components))
            /\ CharSet(visited) = Orderings(CharSet(possible_components))
            /\ by_sound[1].value = options)
    /\ [](ppc \in {"subglyphs", "add"} =>
            position \in 1..(Len(permutation) + 1))
    /\ [][(ppc = "subglyphs" /\ ppc' = "subglyphs") =>
              position' = position + 1]_vars

C8_Witness ==
    /\ Searched
    /\ Len(possible_components) = 3
    /\ Len(visited) = 6
    /\ Cardinality(options) = 3

====
